---------------------------- MODULE Spec2Model ----------------------------
(***************************************************************************)
(* RQuiztube: the ingestion path (transcript source chain, validation      *)
(* gate, question generation, persistence) and the SM-2 scheduler, as      *)
(* state machines translated from server/routes.ts, the YouTubeService,    *)
(* the AnthropicService, the SpacedRepetitionService and DatabaseStorage.  *)
(*                                                                         *)
(* Texts are modelled by what the code reads of them: their length, the    *)
(* number of characters cleaning removes, the keyword terms they contain   *)
(* and the source they came from.                                          *)
(***************************************************************************)
EXTENDS Integers, Sequences, FiniteSets, TLC

VARIABLES
    gate,       \* one run of YouTubeService.validateVideoForProcessing
    videos,     \* rows of the videos table
    questions,  \* rows of the questions table
    nextId,     \* ids handed out so far by generateId()
    req,        \* the ingestion requests in flight, one record per request
    sched,      \* one call of SpacedRepetitionService.calculateNextReview
    quizSessions,       \* rows of the quiz_sessions table
    questionResponses,  \* rows of the question_responses table
    reviewSchedule,     \* rows of the review_schedule table
    clock,      \* the current day, as new Date() reads it
    quiz,       \* the latest answer of a quiz or review route
    gen         \* one run of AnthropicService.generateQuestions

quizVars == <<quizSessions, questionResponses, reviewSchedule, clock, quiz>>

vars == <<gate, videos, questions, nextId, req, sched, quizVars, gen>>

\* No quiz has been taken and no generator run is under way.
QuizAtRest ==
    /\ quizSessions = {}
    /\ questionResponses = {}
    /\ reviewSchedule = {}
    /\ clock = 0
    /\ quiz = [pc |-> "idle"]

GenAtRest == gen = [pc |-> "idle"]

(***************************************************************************)
(* Program constants.                                                      *)
(***************************************************************************)
MIN_TRANSCRIPT_THRESHOLD == 1000
MinDurationSeconds == 180
MinCleanTranscriptLength == 1000
maxTranscriptLength == 6000
SentenceCutFloor == 4800        \* maxTranscriptLength * 0.8
EllipsisLength == 3             \* '...'
MinClaudeContentLength == 800
TemplateFixedLength == 769
IsoTimestampLength == 24
DescriptionContextLength == 300
NoContextLength == 31
MinDescriptionLength == 200

(***************************************************************************)
(* Bounds of the model.                                                    *)
(***************************************************************************)
NumRequests == 2        \* ingestion requests, which may run concurrently
MaxBatch == 2           \* candidates attempted by one batch import
MaxSessions == 2        \* quiz sessions started
MaxAnswers == 2         \* answers submitted
MaxDay == 2             \* days the clock advances
MaxRepetitions == 4     \* repetition counts the scheduler is fed
MaxEaseFactor == 280    \* largest ease factor (in hundredths) it is fed

(***************************************************************************)
(* Texts, video metadata and what the external sources can answer.         *)
(***************************************************************************)
Terms == {"science", "gaming"}

educationalKeywords == {"learn", "tutorial", "explain", "science", "history"}

nonEducationalKeywords == {"reaction", "funny", "vlog", "gaming", "gameplay"}

Strategies == {"python", "youtubeApi", "youtubeTranscript", "ytdlCore",
               "distube", "description"}

\* A text: its length, how many of its characters cleaning removes, the
\* indicator terms in it, the strategy it came from, and stops: the
\* positions, counted in the cleaned text, of its '.', '!' and '?'
\* characters (none: captions without punctuation).
Text(len, noise, terms, src) ==
    [kind |-> "text", len |-> len, noise |-> noise, terms |-> terms,
     src |-> src, stops |-> {}]

NoText == [kind |-> "none"]

\* What a caption source can answer to one fetch: an error, or a caption text.
ExtOutcomes ==
    {[kind |-> "error"]} \cup
    {[kind |-> "text", len |-> l, noise |-> n, terms |-> t] :
        l \in {40, 500, 1000, 7000}, n \in {0, 100}, t \in SUBSET Terms}

\* ISO 8601 durations as the YouTube API reports them; pt = FALSE is a
\* duration without the "PT" prefix the parser looks for (e.g. "P1D").
Durations ==
    {[pt |-> TRUE, h |-> 0, m |-> 1, s |-> 30],
     [pt |-> TRUE, h |-> 0, m |-> 3, s |-> 0],
     [pt |-> TRUE, h |-> 0, m |-> 10, s |-> 30],
     [pt |-> FALSE, h |-> 0, m |-> 0, s |-> 0]}

VideoInfos ==
    {[duration |-> d, terms |-> t, descLen |-> dl] :
        d \in Durations, t \in SUBSET Terms, dl \in {0, 1200}}

----------------------------------------------------------------------------
(***************************************************************************)
(* YouTubeService: pure helpers.                                           *)
(***************************************************************************)
parseDuration(duration) ==
    IF ~duration.pt THEN 0
    ELSE duration.h * 3600 + duration.m * 60 + duration.s

\* cleanTranscript strips bracketed cues, special characters and repeated
\* whitespace: the text loses its noise characters and keeps its words.
cleanTranscript(rawTranscript) ==
    [Text(IF rawTranscript.len > rawTranscript.noise
          THEN rawTranscript.len - rawTranscript.noise ELSE 0,
          0, rawTranscript.terms, rawTranscript.src)
       EXCEPT !.stops = rawTranscript.stops]

\* A heuristic that would only look for educational indicators.
hasEducationalIndicatorsOnly(info, transcript) ==
    (info.terms \cup transcript.terms) \cap educationalKeywords # {}

\* content is the title, the description and the first 1000 characters of
\* the transcript; terms are the indicator terms that occur in it.
hasEducationalContent(info, transcript) ==
    LET content == info.terms \cup transcript.terms
        hasEducationalIndicators == content \cap educationalKeywords # {}
        hasNonEducationalIndicators == content \cap nonEducationalKeywords # {}
    IN  hasEducationalIndicators /\ ~hasNonEducationalIndicators

categorizeContent(info) ==
    IF "science" \in info.terms THEN "science"
    ELSE IF "history" \in info.terms THEN "history"
    ELSE "general"

\* Math.max(truncated.lastIndexOf('.'), lastIndexOf('!'), lastIndexOf('?'))
lastSentenceEnd(clean, truncatedLength) ==
    LET found == {p \in clean.stops : p < truncatedLength} \cup {-1}
    IN  CHOOSE p \in found : \A o \in found : o <= p

\* The transcript part of the payload: the first prefix characters of the
\* clean transcript, with '...' appended or not.
optimizedTranscript(clean) ==
    IF clean.len > maxTranscriptLength
    THEN IF lastSentenceEnd(clean, maxTranscriptLength) > SentenceCutFloor
         THEN [prefix |-> lastSentenceEnd(clean, maxTranscriptLength) + 1,
               ellipsis |-> FALSE]
         ELSE [prefix |-> maxTranscriptLength, ellipsis |-> TRUE]
    ELSE [prefix |-> clean.len, ellipsis |-> FALSE]

OptimizedTranscriptLength(clean) ==
    optimizedTranscript(clean).prefix
      + (IF optimizedTranscript(clean).ellipsis THEN EllipsisLength ELSE 0)

ClaudeContentLength(info, clean) ==
    TemplateFixedLength + IsoTimestampLength + OptimizedTranscriptLength(clean)
      + (IF info.descLen > 0
         THEN (IF info.descLen > DescriptionContextLength
               THEN DescriptionContextLength + 3 ELSE info.descLen)
         ELSE NoContextLength)

\* A shaping whose final validation would ask for more than the template
\* and the shortest transcript add up to.
prepareOptimizedContentWithHigherFloor(info, clean) ==
    IF ClaudeContentLength(info, clean) < MinClaudeContentLength + maxTranscriptLength
    THEN NoText
    ELSE [kind |-> "content", len |-> ClaudeContentLength(info, clean),
          transcriptSrc |-> clean.src,
          transcript |-> optimizedTranscript(clean)]

prepareOptimizedContentForClaude(info, clean) ==
    IF ClaudeContentLength(info, clean) < MinClaudeContentLength
    THEN NoText
    ELSE [kind |-> "content", len |-> ClaudeContentLength(info, clean),
          transcriptSrc |-> clean.src,
          transcript |-> optimizedTranscript(clean)]

\* A rejection that would carry a (null) shaped content along.
RejectedWithContent(reason) ==
    [isValid |-> FALSE, rejectionReason |-> reason,
     claudeOptimizedContent |-> NoText]

Rejected(reason) == [isValid |-> FALSE, rejectionReason |-> reason]

Accepted(info, clean, content, category) ==
    [isValid |-> TRUE, videoInfo |-> info, cleanTranscript |-> clean,
     claudeOptimizedContent |-> content, category |-> category]

----------------------------------------------------------------------------
(***************************************************************************)
(* The transcript source chain (getRawTranscript and its strategies).      *)
(***************************************************************************)
\* The chain's strategies in their order of preference.
methodsWithDescriptionFallback ==
    <<"python", "youtubeApi", "youtubeTranscript", "ytdlCore", "distube",
      "description">>

methods ==
    <<"python", "youtubeApi", "youtubeTranscript", "ytdlCore", "distube">>

\* The shortest text each strategy returns rather than throws.
StrategyMinLength(s) ==
    CASE s = "python" -> 1000
      [] s = "youtubeApi" -> 100
      [] s = "youtubeTranscript" -> 51
      [] s = "ytdlCore" -> 50
      [] s = "distube" -> 50
      [] OTHER -> 100

\* Whether the strategy's external call is made with a timeout: only the
\* python extractor's child processes are (exec's timeout option); the
\* fetch() and getInfo() calls of the others carry none.
HasTimeout(s) == s = "python"

Throws == [kind |-> "throw"]

\* What strategy s returns when its source answers ext.
StrategyResult(s, ext, info) ==
    IF s = "description"
    THEN IF info.descLen < MinDescriptionLength THEN Throws
         ELSE Text(info.descLen, 0, info.terms, "description")
    ELSE IF ext.kind = "error" THEN Throws
    ELSE IF ext.len < StrategyMinLength(s) THEN Throws
    ELSE Text(ext.len, ext.noise, ext.terms, s)

AcceptsAnyResult(result) == result.kind = "text"

\* if (result && result.length >= MIN_TRANSCRIPT_THRESHOLD) return result
AcceptsResult(result) ==
    result.kind = "text" /\ result.len >= MIN_TRANSCRIPT_THRESHOLD

RECURSIVE GetRawTranscriptFrom(_, _, _)
GetRawTranscriptFrom(info, exts, i) ==
    IF i > Len(methods) THEN NoText
    ELSE LET result == StrategyResult(methods[i], exts[i], info)
         IN  IF AcceptsResult(result) THEN result
             ELSE GetRawTranscriptFrom(info, exts, i + 1)

getRawTranscript(info, exts) == GetRawTranscriptFrom(info, exts, 1)

(***************************************************************************)
(* The validation gate (validateVideoForProcessing).                       *)
(***************************************************************************)
DurationTooShortBelowOneMinute(info) == parseDuration(info.duration) < 60

DurationTooShort(info) == parseDuration(info.duration) < MinDurationSeconds

\* Steps 3 to 7, which run without suspension once the chain has returned.
GateAfterTranscript(info, rawTranscript) ==
    IF rawTranscript.kind # "text" THEN Rejected("noTranscript")
    ELSE LET clean == cleanTranscript(rawTranscript)
             content == prepareOptimizedContentForClaude(info, clean)
         IN  IF clean.len < MinCleanTranscriptLength
             THEN Rejected("transcriptTooShort")
             ELSE IF ~hasEducationalContent(info, clean)
             THEN Rejected("notEducational")
             ELSE IF content.kind = "none"
             THEN Rejected("prepareFailed")
             ELSE Accepted(info, clean, content, categorizeContent(info))

\* The whole gate as a function of what the metadata API and the caption
\* sources answer (world.infoOk = FALSE: getVideoInfo throws).
validateVideoForProcessing(world) ==
    IF ~world.infoOk THEN Rejected("validationError")
    ELSE IF DurationTooShort(world.info) THEN Rejected("duration")
    ELSE GateAfterTranscript(world.info,
                             getRawTranscript(world.info, world.exts))

----------------------------------------------------------------------------
(***************************************************************************)
(* One run of validateVideoForProcessing, step by step: the only           *)
(* suspension points are the metadata lookup and each strategy's external  *)
(* call.  gate.invoked counts the calls of each strategy, gate.yielded is  *)
(* the length of the text each returned (0: it threw; -1: not called).     *)
(***************************************************************************)
NoInfo == [duration |-> [pt |-> FALSE, h |-> 0, m |-> 0, s |-> 0],
           terms |-> {}, descLen |-> 0]

GateIdle ==
    [pc |-> "idle", infoOk |-> FALSE, info |-> NoInfo, idx |-> 1,
     hung |-> FALSE,
     invoked |-> [s \in Strategies |-> 0],
     yielded |-> [s \in Strategies |-> -1],
     raw |-> NoText, result |-> Rejected("none")]

\* getVideoInfo throws: the catch block turns it into a rejection.
GateInfoFails ==
    /\ gate.pc = "idle"
    /\ gate' = [gate EXCEPT !.pc = "done",
                            !.result = Rejected("validationError")]
    /\ UNCHANGED <<videos, questions, nextId, req, sched, quizVars, gen>>

\* getVideoInfo returns: the duration check, then the chain is entered.
GateInfo(info) ==
    /\ gate.pc = "idle"
    /\ gate' = IF DurationTooShort(info)
               THEN [gate EXCEPT !.pc = "done", !.infoOk = TRUE,
                                 !.info = info,
                                 !.result = Rejected("duration")]
               ELSE [gate EXCEPT !.pc = "chain", !.infoOk = TRUE,
                                 !.info = info, !.idx = 1]
    /\ UNCHANGED <<videos, questions, nextId, req, sched, quizVars, gen>>

\* const result = await methods[i]()  -- the call is made.
StrategyInvoke ==
    /\ gate.pc = "chain"
    /\ gate' = [gate EXCEPT !.pc = "awaiting", !.hung = FALSE,
                            !.invoked[methods[gate.idx]] = @ + 1]
    /\ UNCHANGED <<videos, questions, nextId, req, sched, quizVars, gen>>

\* The loop body of getRawTranscript on a strategy's result, and, once the
\* chain has returned, the rest of the gate.
ChainContinue(result) ==
    LET s == methods[gate.idx]
        y == IF result.kind = "text" THEN result.len ELSE 0
    IN  IF AcceptsResult(result)
        THEN [gate EXCEPT !.pc = "done", !.hung = FALSE, !.yielded[s] = y,
                          !.raw = result,
                          !.result = GateAfterTranscript(gate.info, result)]
        ELSE IF gate.idx < Len(methods)
        THEN [gate EXCEPT !.pc = "chain", !.hung = FALSE, !.yielded[s] = y,
                          !.idx = @ + 1]
        ELSE [gate EXCEPT !.pc = "done", !.hung = FALSE, !.yielded[s] = y,
                          !.raw = NoText,
                          !.result = GateAfterTranscript(gate.info, NoText)]

\* The strategy's external call answers.
StrategyRespond(ext) ==
    /\ gate.pc = "awaiting"
    /\ ~gate.hung
    /\ gate' = ChainContinue(StrategyResult(methods[gate.idx], ext, gate.info))
    /\ UNCHANGED <<videos, questions, nextId, req, sched, quizVars, gen>>

\* The strategy's external call is one that never answers.
StrategyHang ==
    /\ gate.pc = "awaiting"
    /\ ~gate.hung
    /\ gate' = [gate EXCEPT !.hung = TRUE]
    /\ UNCHANGED <<videos, questions, nextId, req, sched, quizVars, gen>>

\* exec's timeout kills the child process: the strategy throws.
StrategyTimeout ==
    /\ gate.pc = "awaiting"
    /\ HasTimeout(methods[gate.idx])
    /\ gate' = ChainContinue(Throws)
    /\ UNCHANGED <<videos, questions, nextId, req, sched, quizVars, gen>>

GateReturn ==
    /\ gate.pc = "done"
    /\ gate' = GateIdle
    /\ UNCHANGED <<videos, questions, nextId, req, sched, quizVars, gen>>

InitGate ==
    /\ gate = GateIdle
    /\ videos = {}
    /\ questions = {}
    /\ nextId = 1
    /\ req = <<>>
    /\ QuizAtRest
    /\ GenAtRest
    /\ sched = [pc |-> "idle"]

NextGate ==
    \/ GateInfoFails
    \/ \E info \in VideoInfos : GateInfo(info)
    \/ StrategyInvoke
    \/ \E ext \in ExtOutcomes : StrategyRespond(ext)
    \/ StrategyHang
    \/ StrategyTimeout
    \/ GateReturn

SpecGate == InitGate /\ [][NextGate]_vars

----------------------------------------------------------------------------
(***************************************************************************)
(* Claims about the source chain and the gate (checked under SpecGate).    *)
(***************************************************************************)
ChainOrder ==
    <<"python", "youtubeApi", "youtubeTranscript", "ytdlCore", "distube">>

Failed(s) == gate.invoked[s] = 1 /\ gate.yielded[s] \in 0..999

ChainExhausted ==
    gate.pc = "done" /\ \A i \in 1..Len(ChainOrder) : Failed(ChainOrder[i])

\* C6: getRawTranscript calls its strategies in the fixed order, each at
\* most once; a strategy is only called after every earlier one was called
\* once and failed (threw, returned nothing or fewer than 1000 characters);
\* the chain returns the text of the first strategy that yields at least
\* 1000 characters, and calls no strategy after that one.
C6_ChainFirstSuccessShortCircuits ==
    \A i \in 1..Len(ChainOrder) :
        LET s == ChainOrder[i]
        IN  /\ gate.invoked[s] <= 1
            /\ gate.invoked[s] = 1 =>
                   \A j \in 1..(i - 1) : Failed(ChainOrder[j])
            /\ gate.yielded[s] >= 1000 =>
                   /\ gate.pc = "done"
                   /\ gate.raw.kind = "text"
                   /\ gate.raw.src = s
                   /\ gate.raw.len = gate.yielded[s]
                   /\ \A j \in (i + 1)..Len(ChainOrder) :
                          gate.invoked[ChainOrder[j]] = 0
            /\ (gate.pc = "done" /\ gate.raw.kind = "text" /\ gate.raw.src = s)
                   => gate.yielded[s] >= 1000

\* The third strategy succeeds after the first threw and the second returned
\* a text that is too short; the fourth is never called.
C6_Witness ==
    /\ gate.pc = "done"
    /\ gate.raw.kind = "text"
    /\ gate.raw.src = "youtubeTranscript"
    /\ gate.yielded["python"] = 0
    /\ gate.yielded["youtubeApi"] = 500
    /\ gate.invoked["ytdlCore"] = 0

\* C7: when every strategy has failed or returned fewer than 1000
\* characters the chain returns null and the gate rejects with the
\* no-transcript reason; the description is never used as a transcript
\* source, so no transcript the gate returns, cleans or shapes for the
\* generator comes from the video description.
C7_NoDescriptionFallback ==
    /\ ChainExhausted =>
           /\ gate.raw = NoText
           /\ gate.result = Rejected("noTranscript")
    /\ gate.invoked["description"] = 0
    /\ gate.raw.kind = "text" => gate.raw.src # "description"
    /\ gate.result.isValid =>
           /\ gate.result.cleanTranscript.src # "description"
           /\ gate.result.claudeOptimizedContent.transcriptSrc # "description"

\* Every strategy failed (one with a short text) for a video whose
\* description is long enough to pass for a transcript.
C7_Witness ==
    /\ ChainExhausted
    /\ gate.info.descLen >= 1000
    /\ gate.yielded["distube"] = 500
    /\ gate.result = Rejected("noTranscript")

\* C25: the educational check accepts exactly when at least one educational
\* indicator term occurs in the inspected content and no non-educational one
\* does: a candidate that got as far as the check is rejected as not
\* educational when its content holds both kinds of term, or neither.
C25_EducationalIffIndicatorsAndNoRedFlags ==
    (gate.pc = "done" /\ gate.raw.kind = "text"
       /\ cleanTranscript(gate.raw).len >= MinCleanTranscriptLength) =>
        LET present == gate.info.terms \cup cleanTranscript(gate.raw).terms
            someEducational == \E t \in present : t \in educationalKeywords
            someNonEducational == \E t \in present : t \in nonEducationalKeywords
        IN  /\ gate.result # Rejected("notEducational")
                  <=> (someEducational /\ ~someNonEducational)
            /\ (someEducational /\ someNonEducational) =>
                   gate.result = Rejected("notEducational")
            /\ (~someEducational /\ ~someNonEducational) =>
                   gate.result = Rejected("notEducational")

\* An educational title over a transcript that talks about gaming: rejected.
C25_Witness ==
    /\ gate.pc = "done"
    /\ gate.info.terms = {"science"}
    /\ gate.raw.kind = "text"
    /\ gate.raw.terms = {"gaming"}
    /\ gate.result = Rejected("notEducational")

\* C27: every result of the gate is either an acceptance carrying videoInfo,
\* cleanTranscript, claudeOptimizedContent and category and no
\* rejectionReason, or a rejection carrying a rejectionReason and none of
\* the four, also when the rejection comes from the catch block.
C27_ResultIsAcceptedOrRejected ==
    gate.pc = "done" =>
        IF gate.result.isValid
        THEN /\ DOMAIN gate.result =
                   {"isValid", "videoInfo", "cleanTranscript",
                    "claudeOptimizedContent", "category"}
             /\ gate.result.videoInfo = gate.info
             /\ gate.result.cleanTranscript.kind = "text"
             /\ gate.result.claudeOptimizedContent.kind = "content"
        ELSE /\ DOMAIN gate.result = {"isValid", "rejectionReason"}
             /\ gate.result.rejectionReason # "none"

\* getVideoInfo threw and the catch block built the result.
C27_Witness ==
    /\ gate.pc = "done"
    /\ ~gate.infoOk
    /\ gate.result = Rejected("validationError")

\* C27, the other side: an accepted result.
C27_WitnessAccepted ==
    /\ gate.pc = "done"
    /\ gate.result.isValid

\* C8: whenever a strategy's external call is pending and never answers,
\* a timeout of that strategy can still fire, so the chain moves on.
C8_EveryStrategyTimeoutBounded ==
    (gate.pc = "awaiting" /\ gate.hung) => ENABLED StrategyTimeout

\* C9: a candidate whose duration is below 180 seconds is rejected with the
\* duration reason, before any transcript strategy is called, whatever its
\* title and description contain.
C9_ShortVideoRejectedForDuration ==
    (gate.infoOk /\ parseDuration(gate.info.duration) < 180) =>
        /\ gate.pc = "done"
        /\ gate.result = Rejected("duration")
        /\ \A s \in Strategies : gate.invoked[s] = 0

\* A 90-second video whose title says it is educational.
C9_Witness ==
    /\ gate.pc = "done"
    /\ gate.infoOk
    /\ parseDuration(gate.info.duration) = 90
    /\ "science" \in gate.info.terms
    /\ gate.result = Rejected("duration")

----------------------------------------------------------------------------
(***************************************************************************)
(* SpacedRepetitionService.calculateNextReview.  Ease factors are kept in  *)
(* hundredths (2.5 is 250, the floor 1.3 is 130).  A number that may be    *)
(* NaN is a record: the local `interval` is declared without a value and   *)
(* read in the third branch, where undefined * easeFactor is NaN.          *)
(***************************************************************************)
DefaultEaseFactor == 250
MinEaseFactor == 130

Num(n) == [nan |-> FALSE, val |-> n]
NaN == [nan |-> TRUE, val |-> 0]

Max(a, b) == IF a >= b THEN a ELSE b

\* Math.round of interval * easeFactor, the ease factor in hundredths
Round(interval, easeFactor) == (interval * easeFactor + 50) \div 100

\* a <= b as the language compares numbers: false when either is NaN
Leq(a, b) == ~a.nan /\ ~b.nan /\ a.val <= b.val

IsLapseBelowTwo(quality) == quality < 2

IsLapseOnlyZero(quality) == quality < 1

\* if (quality < 3)
IsLapse(quality) == quality < 3

UpdatedEaseFactorWithoutFloor(easeFactor, quality) ==
    easeFactor + (10 - (5 - quality) * (8 + (5 - quality) * 2))

\* easeFactor + (0.1 - (5 - quality) * (0.08 + (5 - quality) * 0.02))
UpdatedEaseFactor(easeFactor, quality) ==
    Max(MinEaseFactor,
        easeFactor + (10 - (5 - quality) * (8 + (5 - quality) * 2)))

calculateNextReview(easeFactor, repetitions, quality) ==
    IF IsLapse(quality)
    THEN [easeFactor |-> easeFactor, repetitions |-> 0, interval |-> Num(1)]
    ELSE [easeFactor |-> UpdatedEaseFactor(easeFactor, quality),
          repetitions |-> repetitions + 1,
          interval |-> IF repetitions = 0 THEN Num(1)
                       ELSE IF repetitions = 1 THEN Num(6)
                       ELSE NaN]

Qualities == 0..5

\* Response times in seconds, on both sides of each threshold.
ResponseTimes == {0, 10, 11, 20, 21, 45, 46}

calculateQualityStrictThresholds(isCorrect, responseTime, coin) ==
    IF ~isCorrect THEN (IF coin THEN 0 ELSE 1)
    ELSE IF responseTime < 10 THEN 5
    ELSE IF responseTime < 20 THEN 4
    ELSE 3

\* calculateQuality; coin is the outcome of Math.random() < 0.5
calculateQuality(isCorrect, responseTime, coin) ==
    IF ~isCorrect THEN (IF coin THEN 0 ELSE 1)
    ELSE IF responseTime <= 10 THEN 5
    ELSE IF responseTime <= 20 THEN 4
    ELSE IF responseTime <= 45 THEN 3
    ELSE 3

\* The answer a quality was computed from, if it was computed from one.
Answer(isCorrect, responseTime, coin) ==
    [given |-> TRUE, isCorrect |-> isCorrect, responseTime |-> responseTime,
     coin |-> coin]

NoAnswer ==
    [given |-> FALSE, isCorrect |-> FALSE, responseTime |-> 0, coin |-> FALSE]

\* The interval (days) of the card before the first call.
PriorIntervals == {0, 1, 6, 16}

\* A call of calculateNextReview with the given prior state and quality.
CalculateNextReview(q) ==
    /\ sched.pc = "in"
    /\ sched' = [sched EXCEPT !.pc = "out", !.quality = q,
                   !.out = calculateNextReview(sched.easeFactor,
                                               sched.repetitions, q)]
    /\ UNCHANGED <<gate, videos, questions, nextId, req, quizVars, gen>>

\* An answer is scored by calculateQuality and the quality is handed to
\* calculateNextReview, as the answer route does.
ScoreAnswer(isCorrect, responseTime, coin) ==
    LET quality == calculateQuality(isCorrect, responseTime, coin)
    IN  /\ sched.pc = "in"
        /\ sched' = [sched EXCEPT !.pc = "out", !.quality = quality,
                       !.answer = Answer(isCorrect, responseTime, coin),
                       !.out = calculateNextReview(sched.easeFactor,
                                                   sched.repetitions, quality)]
        /\ UNCHANGED <<gate, videos, questions, nextId, req, quizVars, gen>>

\* The returned state is the prior state of the next call; passed records
\* that it was returned for a response of quality 3 or more.
NextReviewOfSameCard ==
    /\ sched.pc = "out"
    /\ sched.out.repetitions <= MaxRepetitions
    /\ sched.out.easeFactor <= MaxEaseFactor
    /\ sched' = [sched EXCEPT !.pc = "in",
                              !.easeFactor = sched.out.easeFactor,
                              !.repetitions = sched.out.repetitions,
                              !.interval = sched.out.interval,
                              !.passed = ~IsLapse(sched.quality),
                              !.answer = NoAnswer]
    /\ UNCHANGED <<gate, videos, questions, nextId, req, quizVars, gen>>

InitSched ==
    /\ gate = GateIdle
    /\ videos = {}
    /\ questions = {}
    /\ nextId = 1
    /\ req = <<>>
    /\ QuizAtRest
    /\ GenAtRest
    /\ \E e \in MinEaseFactor..MaxEaseFactor, r \in 0..MaxRepetitions,
          i \in PriorIntervals :
           sched = [pc |-> "in", easeFactor |-> e, repetitions |-> r,
                    interval |-> Num(i), passed |-> FALSE, quality |-> 0,
                    answer |-> NoAnswer,
                    out |-> [easeFactor |-> e, repetitions |-> r,
                             interval |-> Num(1)]]

NextSched ==
    \/ \E q \in Qualities : CalculateNextReview(q)
    \/ \E isCorrect \in BOOLEAN, responseTime \in ResponseTimes,
          coin \in BOOLEAN :
           ScoreAnswer(isCorrect, responseTime, coin)
    \/ NextReviewOfSameCard

SpecSched == InitSched /\ [][NextSched]_vars

\* C10: for any prior ease factor and repetition count, a response of
\* quality below 3 makes calculateNextReview return repetitions 0 and
\* interval 1.
C10_LapseResets ==
    (sched.pc = "out" /\ sched.quality < 3) =>
        /\ sched.out.repetitions = 0
        /\ sched.out.interval = Num(1)

\* A lapse (quality 2) on a card with three repetitions behind it.
C10_Witness ==
    /\ sched.pc = "out"
    /\ sched.quality = 2
    /\ sched.repetitions = 3
    /\ sched.easeFactor = DefaultEaseFactor
    /\ sched.out.repetitions = 0

\* The interval the SM-2 rule prescribes for a passing response: 1 for the
\* first repetition, 6 for the second, then the card's previous interval
\* times the new ease factor, rounded.
PrescribedInterval ==
    IF sched.out.repetitions = 1 THEN Num(1)
    ELSE IF sched.out.repetitions = 2 THEN Num(6)
    ELSE IF sched.interval.nan THEN NaN
    ELSE Num(Round(sched.interval.val, sched.out.easeFactor))

\* C11: for a response of quality 3 or more calculateNextReview returns
\* interval 1 when the new repetition count is 1, 6 when it is 2, and
\* round(previous interval x new ease factor) otherwise (so 5, 5, 4 from
\* ease 2.5, no repetitions, ends with 16 days).
C11_PassingIntervalRule ==
    (sched.pc = "out" /\ sched.quality >= 3) =>
        sched.out.interval = PrescribedInterval

\* C12: starting from an ease factor of at least 1.3, the ease factor is
\* never below 1.3, before or after any scheduler update.
C12_EaseFactorFloor ==
    /\ sched.easeFactor >= MinEaseFactor
    /\ sched.out.easeFactor >= MinEaseFactor

\* C12 witness: a quality-3 response to a card whose ease factor is so close
\* to 1.3 that the formula alone would take it below.
C12_Witness ==
    /\ sched.pc = "out"
    /\ sched.quality = 3
    /\ sched.easeFactor = MinEaseFactor + 5
    /\ sched.out.easeFactor = MinEaseFactor

\* C13: within a run of consecutive responses of quality 3 or more, the
\* interval returned by an update is not below the one returned before it.
C13_IntervalsNonDecreasingOnSuccess ==
    (sched.pc = "out" /\ sched.passed /\ sched.quality >= 3) =>
        Leq(sched.interval, sched.out.interval)

\* C14: every interval the scheduler returns is a whole number of days of
\* at least 1.
C14_IntervalIsWholeDaysAtLeastOne ==
    sched.pc = "out" =>
        /\ ~sched.out.interval.nan
        /\ sched.out.interval.val \in Nat
        /\ sched.out.interval.val >= 1

\* C21: calculateQuality returns a whole number from 0 to 5: 0 or 1 for an
\* incorrect answer, and for a correct one 5 up to 10 seconds, 4 up to 20
\* seconds and 3 beyond.
C21_QualityOfAnswer ==
    (sched.pc = "out" /\ sched.answer.given) =>
        /\ sched.quality \in 0..5
        /\ ~sched.answer.isCorrect => sched.quality \in {0, 1}
        /\ sched.answer.isCorrect =>
              sched.quality = IF sched.answer.responseTime <= 10 THEN 5
                              ELSE IF sched.answer.responseTime <= 20 THEN 4
                              ELSE 3

\* C21 witness: a correct answer given in exactly 20 seconds scores 4.
C21_Witness ==
    /\ sched.pc = "out"
    /\ sched.answer.given
    /\ sched.answer.isCorrect
    /\ sched.answer.responseTime = 20
    /\ sched.quality = 4

\* C28: the scheduling state computed for an answer does not depend on the
\* random draw: the same correctness, response time and prior state give the
\* same (easeFactor, repetitions, interval) whichever way Math.random falls.
C28_SchedulingIsDeterministic ==
    (sched.pc = "out" /\ sched.answer.given) =>
        sched.out =
            calculateNextReview(sched.easeFactor, sched.repetitions,
                calculateQuality(sched.answer.isCorrect,
                                 sched.answer.responseTime,
                                 ~sched.answer.coin))

\* C28 witness: an incorrect answer, scored 1 by the random draw, to a card
\* with repetitions behind it.
C28_Witness ==
    /\ sched.pc = "out"
    /\ sched.answer.given
    /\ ~sched.answer.isCorrect
    /\ sched.quality = 1
    /\ sched.repetitions = 2
    /\ sched.out.repetitions = 0

----------------------------------------------------------------------------
(***************************************************************************)
(* AnthropicService.generateQuestions as a function of what the API        *)
(* answers: calls[i] is the HTTP status of the i-th call (200: a response  *)
(* arrives), body is the text of the response.                             *)
(***************************************************************************)
maxRetries == 3

isRetryable(status) == status \in {529, 503, 500, 429}

\* The retry loop: TRUE when a response is obtained, FALSE when the loop
\* rethrows the API error.
RECURSIVE RetryLoopGetsResponse(_, _)
RetryLoopGetsResponse(calls, retries) ==
    IF calls[retries + 1] = 200 THEN TRUE
    ELSE IF ~isRetryable(calls[retries + 1]) \/ retries + 1 > maxRetries
    THEN FALSE
    ELSE RetryLoopGetsResponse(calls, retries + 1)

\* A raw item of the "questions" array: which fields it has, how many
\* options, its correctAnswer (a number) and its difficulty.
RawItem(hasFields, nOptions, correctAnswer, difficulty) ==
    [hasFields |-> hasFields, nOptions |-> nOptions,
     correctAnswer |-> correctAnswer, difficulty |-> difficulty]

\* A validation that would not count the options.
ItemHasFields(q) == q.hasFields

ItemIsValid(q) == q.hasFields /\ q.nOptions = 4

Min(a, b) == IF a <= b THEN a ELSE b

ValidatedQuestion(q) ==
    [nOptions |-> q.nOptions,
     correctAnswer |-> Max(0, Min(3, q.correctAnswer)),
     difficulty |-> IF q.difficulty \in {"easy", "medium", "hard"}
                    THEN q.difficulty ELSE "medium"]

RECURSIVE ValidatedQuestions(_)
ValidatedQuestions(items) ==
    IF items = <<>> THEN <<>>
    ELSE IF ItemIsValid(Head(items))
    THEN <<ValidatedQuestion(Head(items))>> \o ValidatedQuestions(Tail(items))
    ELSE ValidatedQuestions(Tail(items))

GenerationThrows == [kind |-> "throw", qs |-> <<>>]

generateQuestions(api) ==
    IF ~RetryLoopGetsResponse(api.calls, 0) THEN GenerationThrows
    ELSE IF api.body.kind # "questions" THEN GenerationThrows
    ELSE [kind |-> "list", qs |-> ValidatedQuestions(api.body.items)]

GoodItem == RawItem(TRUE, 4, 2, "easy")

Body(items) == [kind |-> "questions", items |-> items]

AllOk == <<200, 200, 200, 200>>

\* What the API may answer to one generateQuestions call.
GenWorlds ==
    {[calls |-> AllOk, body |-> Body(<<>>)],
     [calls |-> AllOk, body |-> Body(<<GoodItem, GoodItem, GoodItem>>)],
     [calls |-> AllOk,
      body |-> Body(<<GoodItem, GoodItem, GoodItem, GoodItem, GoodItem>>)],
     [calls |-> <<529, 200, 200, 200>>,
      body |-> Body(<<GoodItem, RawItem(TRUE, 3, 0, "easy"),
                      RawItem(TRUE, 4, 7, "tricky"), GoodItem, GoodItem>>)],
     [calls |-> AllOk, body |-> [kind |-> "unparsable", items |-> <<>>]],
     [calls |-> AllOk, body |-> [kind |-> "noArray", items |-> <<>>]],
     [calls |-> <<400, 200, 200, 200>>, body |-> Body(<<GoodItem>>)],
     [calls |-> <<529, 503, 429, 500>>, body |-> Body(<<GoodItem>>)]}

----------------------------------------------------------------------------
(***************************************************************************)
(* The ingestion routes of registerRoutes.  A request suspends at every    *)
(* await: the library lookup, the gate, the generator and the two inserts. *)
(* Between two awaits its code runs without interruption, so each action   *)
(* is the code from one await to the next.                                 *)
(***************************************************************************)
Requests == 1..NumRequests
Users == {"u1"}
YoutubeIds == {"y1", "y2"}
Routes == {"analyze", "history", "html", "educational", "drive"}

\* The awaited calls of one candidate's pipeline, in the order the route
\* makes them.
RouteStepsPersistFirst(route) ==
    <<"check", "validate", "createVideo", "generate", "createQuestions">>

RouteStepsGenerateLast(route) ==
    <<"check", "validate", "createVideo", "createQuestions", "generate">>

RouteSteps(route) ==
    IF route = "drive"
    THEN <<"check", "getInfo", "validate", "generate", "createVideo",
           "createQuestions">>
    ELSE <<"check", "validate", "generate", "createVideo", "createQuestions">>

StepIndex(route, pc) ==
    CHOOSE i \in 1..Len(RouteSteps(route)) : RouteSteps(route)[i] = pc

IsLastStep(route, pc) == StepIndex(route, pc) = Len(RouteSteps(route))

NextPc(route, pc) == RouteSteps(route)[StepIndex(route, pc) + 1]

NoValidation == Rejected("none")
NoGeneration == [kind |-> "none", qs |-> <<>>]

IdleRequest ==
    [pc |-> "idle", route |-> "none", user |-> "none", len |-> 0, k |-> 0,
     yid |-> "none", seen |-> {}, val |-> NoValidation, gen |-> NoGeneration,
     video |-> 0, processed |-> 0, skipped |-> 0, failed |-> 0,
     response |-> "none", threw |-> FALSE]

\* The candidate's locals go out of scope; the loop takes the next one.
EndAttempt(rq) ==
    [rq EXCEPT !.pc = "loop", !.yid = "none", !.val = NoValidation,
               !.gen = NoGeneration, !.video = 0]

Respond(rq, code) == [EndAttempt(rq) EXCEPT !.pc = "done", !.response = code]

Skipped(rq) == [EndAttempt(rq) EXCEPT !.skipped = @ + 1]

\* The item has no usable video id.
OnInvalidItem(rq) ==
    CASE rq.route = "analyze" -> Respond(rq, "400")
      [] rq.route = "drive" -> EndAttempt(rq)
      [] OTHER -> Skipped(rq)

\* The item is null: reading its url throws inside the candidate's try, the
\* catch block reads it again to report the error and throws too, and the
\* handler's outer catch answers for the whole request.
OnNullItem(rq) == Respond(rq, "500")

\* A route that would not look the video up and go on to its next step.
OnAlreadyGoOn(rq) == [rq EXCEPT !.pc = NextPc(rq.route, rq.pc)]

\* The video is already in the user's library.
OnAlready(rq) ==
    CASE rq.route = "analyze" -> Respond(rq, "200")
      [] rq.route = "drive" -> EndAttempt(rq)
      [] OTHER -> Skipped(rq)

\* A route that would not look at isValid and go on to its next step.
OnRejectedGoOn(rq) == [rq EXCEPT !.pc = NextPc(rq.route, rq.pc)]

\* The gate rejected the candidate.
OnRejected(rq) ==
    CASE rq.route = "analyze" -> Respond(rq, "400")
      [] rq.route = "drive" -> EndAttempt(rq)
      [] OTHER -> Skipped(rq)

\* An awaited call threw: the catch block around the candidate.
OnError(rq) ==
    CASE rq.route = "analyze" -> Respond(rq, "500")
      [] rq.route = "drive" -> EndAttempt(rq)
      [] rq.route = "educational" -> Skipped(rq)
      [] OTHER -> [EndAttempt(rq) EXCEPT !.failed = @ + 1]

\* The candidate's video and questions were written.
OnProcessed(rq) ==
    IF rq.route = "analyze" THEN Respond(rq, "200")
    ELSE [EndAttempt(rq) EXCEPT !.processed = @ + 1]

Advance(rq) ==
    IF IsLastStep(rq.route, rq.pc) THEN OnProcessed(rq)
    ELSE [rq EXCEPT !.pc = NextPc(rq.route, rq.pc)]

\* The request arrives; a batch route reads its list of candidates.
\* Requests are numbered in their order of arrival.
Start(r, route, user, len) ==
    /\ req[r].pc = "idle"
    /\ \A o \in Requests : o < r => req[o].pc # "idle"
    /\ route = "analyze" => len = 1
    /\ route = "html" => len <= Cardinality(YoutubeIds)
    /\ req' = [req EXCEPT ![r] =
                 IF route = "html" /\ len = 0
                 THEN Respond([IdleRequest EXCEPT !.route = route,
                                                  !.user = user], "400")
                 ELSE [IdleRequest EXCEPT !.pc = "loop", !.route = route,
                                          !.user = user, !.len = len]]
    /\ UNCHANGED <<gate, videos, questions, nextId, sched, quizVars, gen>>

\* googleDriveService.downloadWatchHistory throws: the outer catch.
StartDriveFails(r, user) ==
    /\ req[r].pc = "idle"
    /\ \A o \in Requests : o < r => req[o].pc # "idle"
    /\ req' = [req EXCEPT ![r] =
                 Respond([IdleRequest EXCEPT !.route = "drive",
                                             !.user = user], "500")]
    /\ UNCHANGED <<gate, videos, questions, nextId, sched, quizVars, gen>>

\* The head of the loop: the response after the last candidate, or the next
\* candidate (y = "none": an item without a usable video id; y = "null": a
\* null element of the posted array).  The HTML parser never yields the same
\* id twice, nor an item without one.
LoopHead(r, y) ==
    LET rq == req[r]
    IN  /\ rq.pc = "loop"
        /\ (rq.route = "html" /\ rq.k < rq.len) => y \in YoutubeIds \ rq.seen
        /\ y = "null" => rq.route \in {"history", "educational", "drive"}
        /\ req' = [req EXCEPT ![r] =
                     IF rq.k = rq.len THEN Respond(rq, "200")
                     ELSE IF y = "null"
                     THEN OnNullItem([rq EXCEPT !.k = @ + 1,
                                                !.threw = FALSE])
                     ELSE IF y = "none"
                     THEN OnInvalidItem([rq EXCEPT !.k = @ + 1,
                                                   !.threw = FALSE])
                     ELSE [rq EXCEPT !.k = @ + 1, !.yid = y, !.threw = FALSE,
                             !.seen = IF rq.route = "html"
                                      THEN @ \cup {y} ELSE @,
                             !.pc = RouteSteps(rq.route)[1]]]
        /\ UNCHANGED <<gate, videos, questions, nextId, sched, quizVars, gen>>

\* storage.getUserVideos(userId) answers; some(v => v.youtubeId === videoId)
CheckExisting(r) ==
    LET rq == req[r]
        existing == {v \in videos : v.userId = rq.user}
    IN  /\ rq.pc = "check"
        /\ req' = [req EXCEPT ![r] =
                     IF \E v \in existing : v.youtubeId = rq.yid
                     THEN OnAlready(rq) ELSE Advance(rq)]
        /\ UNCHANGED <<gate, videos, questions, nextId, sched, quizVars, gen>>

\* youtubeService.getVideoInfo answers or throws (the drive route).
GetInfo(r, ok) ==
    LET rq == req[r]
    IN  /\ rq.pc = "getInfo"
        /\ req' = [req EXCEPT ![r] = IF ok THEN Advance(rq) ELSE OnError(rq)]
        /\ UNCHANGED <<gate, videos, questions, nextId, sched, quizVars, gen>>

\* if (!validationResult.isValid) { skip } else go on with the candidate
AfterValidation(rq, validationResult) ==
    IF ~validationResult.isValid THEN OnRejected(rq)
    ELSE Advance([rq EXCEPT !.val = validationResult])

\* youtubeService.validateVideoForProcessing answers.
Validate(r, world) ==
    LET rq == req[r]
        validationResult == validateVideoForProcessing(world)
    IN  /\ rq.pc = "validate"
        /\ req' = [req EXCEPT ![r] = AfterValidation(rq, validationResult)]
        /\ UNCHANGED <<gate, videos, questions, nextId, sched, quizVars, gen>>

\* anthropicService.generateQuestions answers or throws; threw records that
\* the generator threw for the request's latest candidate.  Only the drive
\* route looks at the number of questions it got.
Generate(r, api) ==
    LET rq == req[r]
        generatedQuestions == generateQuestions(api)
    IN  /\ rq.pc = "generate"
        /\ req' = [req EXCEPT ![r] =
                     IF generatedQuestions.kind = "throw"
                     THEN OnError([rq EXCEPT !.threw = TRUE])
                     ELSE IF rq.route = "drive"
                             /\ Len(generatedQuestions.qs) # 5
                     THEN EndAttempt(rq)
                     ELSE Advance([rq EXCEPT !.gen = generatedQuestions])]
        /\ UNCHANGED <<gate, videos, questions, nextId, sched, quizVars, gen>>

\* The row storage.createVideo inserts; by, genReturned and nGenerated
\* record which attempt wrote it and what it had generated by then.
VideoRow(r, rq) ==
    [id |-> nextId, userId |-> rq.user, youtubeId |-> rq.yid,
     transcriptSrc |-> rq.val.cleanTranscript.src,
     by |-> <<r, rq.k>>,
     genReturned |-> rq.gen.kind = "list",
     nGenerated |-> Len(rq.gen.qs)]

\* storage.createVideo: one INSERT, which the database may refuse.
CreateVideo(r, ok) ==
    LET rq == req[r]
    IN  /\ rq.pc = "createVideo"
        /\ IF ok
           THEN /\ videos' = videos \cup {VideoRow(r, rq)}
                /\ nextId' = nextId + 1
                /\ req' = [req EXCEPT ![r] = Advance([rq EXCEPT !.video = nextId])]
           ELSE /\ req' = [req EXCEPT ![r] = OnError(rq)]
                /\ UNCHANGED <<videos, nextId>>
        /\ UNCHANGED <<gate, questions, sched, quizVars, gen>>

QuestionRows(videoId, by, qs) ==
    {[id |-> nextId + i - 1, videoId |-> videoId, by |-> by,
      nOptions |-> qs[i].nOptions, correctAnswer |-> qs[i].correctAnswer,
      difficulty |-> qs[i].difficulty] : i \in 1..Len(qs)}

\* storage.createQuestions: nothing for an empty list, else one INSERT.
CreateQuestions(r, ok) ==
    LET rq == req[r]
    IN  /\ rq.pc = "createQuestions"
        /\ rq.gen.qs = <<>> => ok
        /\ IF ok
           THEN /\ questions' = questions \cup QuestionRows(rq.video, <<r, rq.k>>, rq.gen.qs)
                /\ nextId' = nextId + Len(rq.gen.qs)
                /\ req' = [req EXCEPT ![r] = Advance(rq)]
           ELSE /\ req' = [req EXCEPT ![r] = OnError(rq)]
                /\ UNCHANGED <<questions, nextId>>
        /\ UNCHANGED <<gate, videos, sched, quizVars, gen>>

World(infoOk, info, ext) ==
    [infoOk |-> infoOk, info |-> info,
     exts |-> [i \in 1..Len(methods) |-> ext]]

\* What the model's API may answer to the generator's calls for a candidate.
IngestGenWorlds ==
    {api \in GenWorlds : generateQuestions(api).kind = "throw"
                          \/ Len(generateQuestions(api).qs) \in {0, 5}}

GoodInfo == [duration |-> [pt |-> TRUE, h |-> 0, m |-> 10, s |-> 30],
             terms |-> {"science"}, descLen |-> 1200]

GoodCaptions == [kind |-> "text", len |-> 7000, noise |-> 0, terms |-> {}]

\* What the metadata API and the caption sources may answer for a candidate.
IngestWorlds ==
    {World(TRUE, GoodInfo, GoodCaptions),
     World(FALSE, GoodInfo, GoodCaptions),
     World(TRUE, [GoodInfo EXCEPT !.duration.m = 1], GoodCaptions),
     World(TRUE, GoodInfo, [kind |-> "error"]),
     World(TRUE, GoodInfo, [GoodCaptions EXCEPT !.len = 1000, !.noise = 100]),
     World(TRUE, GoodInfo, [GoodCaptions EXCEPT !.terms = {"gaming"}])}

Init ==
    /\ gate = GateIdle
    /\ videos = {}
    /\ questions = {}
    /\ nextId = 1
    /\ req = [r \in Requests |-> IdleRequest]
    /\ sched = [pc |-> "idle"]
    /\ QuizAtRest
    /\ GenAtRest

Next ==
    \/ \E r \in Requests, route \in Routes, user \in Users, len \in 0..MaxBatch :
           Start(r, route, user, len)
    \/ \E r \in Requests, user \in Users : StartDriveFails(r, user)
    \/ \E r \in Requests, y \in YoutubeIds \cup {"none", "null"} :
           LoopHead(r, y)
    \/ \E r \in Requests : CheckExisting(r)
    \/ \E r \in Requests, ok \in BOOLEAN : GetInfo(r, ok)
    \/ \E r \in Requests, world \in IngestWorlds : Validate(r, world)
    \/ \E r \in Requests, api \in IngestGenWorlds : Generate(r, api)
    \/ \E r \in Requests, ok \in BOOLEAN : CreateVideo(r, ok)
    \/ \E r \in Requests, ok \in BOOLEAN : CreateQuestions(r, ok)

Spec == Init /\ [][Next]_vars

----------------------------------------------------------------------------
(***************************************************************************)
(* Properties of the ingestion routes.                                     *)
(***************************************************************************)
AllQuiet == \A r \in Requests : req[r].pc \in {"idle", "done"}

QuestionsOf(v) == {q \in questions : q.videoId = v.id}

\* C1: once every ingestion request has been answered, every video row in
\* the store has at least one question row carrying its id, whatever list the
\* generator returned.
C1_NoVideoWithoutQuestions ==
    AllQuiet => \A v \in videos : QuestionsOf(v) # {}

\* C2: a video row is written only after generateQuestions has returned for
\* the same candidate: a request about to call storage.createVideo holds the
\* generator's list, and every row in the store was written by such a request.
C2_GenerateThenPersist ==
    /\ \A r \in Requests :
           req[r].pc = "createVideo" => req[r].gen.kind = "list"
    /\ \A v \in videos : v.genReturned

\* C2 witness: a drive import and another route have both written a video.
C2_Witness ==
    /\ \E v \in videos : req[v.by[1]].route = "drive"
    /\ \E v \in videos : req[v.by[1]].route # "drive"

\* C3: when the generator throws for a candidate, that attempt has written
\* no video row and no question row.
C3_GeneratorThrowLeavesStoreUnchanged ==
    \A r \in Requests :
        req[r].threw =>
            /\ \A v \in videos : v.by # <<r, req[r].k>>
            /\ \A q \in questions : q.by # <<r, req[r].k>>

\* C3 witness: a batch import wrote a video with its questions for its first
\* candidate, and the generator threw for its second.
C3_Witness ==
    \E r \in Requests :
        /\ req[r].threw
        /\ req[r].k = 2
        /\ \E v \in videos : v.by = <<r, 1>> /\ QuestionsOf(v) # {}

\* C4: a video and its questions are committed as one unit: once every
\* request has been answered, each video row in the store has all the
\* question rows generated for it, even if an insert failed on the way.
C4_VideoAndQuestionsAtomic ==
    AllQuiet => \A v \in videos : Cardinality(QuestionsOf(v)) = v.nGenerated

\* C5: whatever the interleaving of concurrent requests, the store holds at
\* most one video row per user and YouTube id.
C5_OneVideoPerUserAndYoutubeId ==
    \A v, w \in videos :
        (v.userId = w.userId /\ v.youtubeId = w.youtubeId) => v = w

\* C19: a batch import never stops at a failing candidate: the request is
\* answered with the per-candidate counts, and processed + skipped + failed
\* is the number of candidates attempted.
C19_BatchReportsEveryCandidate ==
    \A r \in Requests :
        (req[r].pc = "done" /\ req[r].route \in {"history", "html"}
                            /\ req[r].len > 0) =>
            /\ req[r].response = "200"
            /\ req[r].processed + req[r].skipped + req[r].failed = req[r].len

----------------------------------------------------------------------------
(***************************************************************************)
(* The quiz and review routes: POST /api/quiz/start, POST /api/quiz/answer *)
(* and GET /api/reviews/due over DatabaseStorage.  Dates are whole days;   *)
(* a row carries the columns the program reads back.                       *)
(***************************************************************************)
Learners == {"u1", "u2"}
UserAnswers == {0, 1}

NextReviewDateWithoutInterval(now, interval) == Num(now)

\* nextReview.setDate(nextReview.getDate() + interval)
NextReviewDate(now, interval) ==
    IF interval.nan THEN NaN ELSE Num(now + interval.val)

\* A library as the ingestion routes leave it: each learner has analysed
\* the same video and got one question for it.
LibraryVideo(id, userId) ==
    [id |-> id, userId |-> userId, youtubeId |-> "y1",
     transcriptSrc |-> "python", by |-> <<1, 1>>, genReturned |-> TRUE,
     nGenerated |-> 1]

LibraryQuestion(id, videoId, correctAnswer) ==
    [id |-> id, videoId |-> videoId, by |-> <<1, 1>>, nOptions |-> 4,
     correctAnswer |-> correctAnswer, difficulty |-> "easy"]

\* res.status(...).json(...) of the start and answer routes
QuizAnswer(pc, status) == [pc |-> pc, status |-> status]

\* res.json(dueReviews), with the owner and the day it was asked for
DueAnswer(userId, dueReviews) ==
    [pc |-> "due", user |-> userId, at |-> clock, result |-> dueReviews]

\* POST /api/quiz/start
StartQuiz(userId, videoId) ==
    LET found == {v \in videos : v.id = videoId}
        owned == {v \in found : v.userId = userId}
        videoQuestions == {q \in questions : q.videoId = videoId}
    IN  /\ Cardinality(quizSessions) < MaxSessions
        /\ IF owned = {}
           THEN /\ quiz' = QuizAnswer("started", "404")
                /\ UNCHANGED <<quizSessions, nextId>>
           ELSE IF videoQuestions = {}
           THEN /\ quiz' = QuizAnswer("started", "400")
                /\ UNCHANGED <<quizSessions, nextId>>
           ELSE /\ quizSessions' = quizSessions \cup
                      {[id |-> nextId, userId |-> userId, videoId |-> videoId,
                        totalQuestions |-> Cardinality(videoQuestions)]}
                /\ nextId' = nextId + 1
                /\ quiz' = QuizAnswer("started", "200")
        /\ UNCHANGED <<gate, videos, questions, req, sched, questionResponses,
                       reviewSchedule, clock, gen>>

\* The row the answer route hands to storage.createReviewSchedule, with the
\* creation day the table fills in.
ReviewRow(id, userId, questionId, nextReview) ==
    [id |-> id, userId |-> userId, questionId |-> questionId,
     createdAt |-> clock,
     nextReview |-> NextReviewDate(clock, nextReview.interval),
     interval |-> nextReview.interval,
     easeFactor |-> nextReview.easeFactor,
     repetitions |-> nextReview.repetitions]

\* POST /api/quiz/answer
SubmitAnswer(userId, sessionId, questionId, userAnswer, responseTime, coin) ==
    LET session == {x \in quizSessions : x.userId = userId}
        currentSession == {x \in session : x.id = sessionId}
        question == {q \in questions : q.id = questionId}
        isCorrect == \E q \in question : q.correctAnswer = userAnswer
        quality == calculateQuality(isCorrect, responseTime, coin)
        nextReview == calculateNextReview(DefaultEaseFactor, 0, quality)
    IN  /\ Cardinality(questionResponses) < MaxAnswers
        /\ IF currentSession = {} \/ question = {}
           THEN /\ quiz' = QuizAnswer("answered", "404")
                /\ UNCHANGED <<questionResponses, reviewSchedule, nextId>>
           ELSE /\ questionResponses' = questionResponses \cup
                      {[id |-> nextId, sessionId |-> sessionId,
                        questionId |-> questionId, isCorrect |-> isCorrect]}
                /\ reviewSchedule' = reviewSchedule \cup
                      {ReviewRow(nextId + 1, userId, questionId, nextReview)}
                /\ nextId' = nextId + 2
                /\ quiz' = QuizAnswer("answered", "200")
        /\ UNCHANGED <<gate, videos, questions, req, sched, quizSessions,
                       clock, gen>>

\* eq(reviewSchedule.userId, userId) and lte(reviewSchedule.nextReview, now)
IsDueIgnoringOwner(card, userId, now) == Leq(card.nextReview, Num(now))

IsDueBeforeNow(card, userId, now) ==
    card.userId = userId /\ ~Leq(Num(now), card.nextReview)

IsDue(card, userId, now) ==
    card.userId = userId /\ Leq(card.nextReview, Num(now))

\* The rows of the select: review_schedule joined to questions and videos.
DueRows(userId, now) ==
    {row \in [card : reviewSchedule, question : questions, video : videos] :
        /\ row.card.questionId = row.question.id
        /\ row.question.videoId = row.video.id
        /\ IsDue(row.card, userId, now)}

\* The orders in which a select without ORDER BY may return its rows.
RowOrders(rows) ==
    {order \in [1..Cardinality(rows) -> rows] :
        \A i, j \in 1..Cardinality(rows) : order[i] = order[j] => i = j}

\* GET /api/reviews/due
GetDueReviews(userId, order) ==
    /\ order \in RowOrders(DueRows(userId, clock))
    /\ quiz' = DueAnswer(userId, order)
    /\ UNCHANGED <<gate, videos, questions, nextId, req, sched, quizSessions,
                   questionResponses, reviewSchedule, clock, gen>>

\* A day passes.
Tick ==
    /\ clock < MaxDay
    /\ clock' = clock + 1
    /\ UNCHANGED <<gate, videos, questions, nextId, req, sched, quizSessions,
                   questionResponses, reviewSchedule, quiz, gen>>

InitQuiz ==
    /\ gate = GateIdle
    /\ videos = {LibraryVideo(1, "u1"), LibraryVideo(3, "u2")}
    /\ questions = {LibraryQuestion(2, 1, 0), LibraryQuestion(4, 3, 1)}
    /\ nextId = 5
    /\ req = <<>>
    /\ sched = [pc |-> "idle"]
    /\ QuizAtRest
    /\ GenAtRest

NextQuiz ==
    \/ \E userId \in Learners, videoId \in {v.id : v \in videos} \cup {0} :
           StartQuiz(userId, videoId)
    \/ \E userId \in Learners,
          sessionId \in {x.id : x \in quizSessions} \cup {0},
          questionId \in {q.id : q \in questions} \cup {0},
          userAnswer \in UserAnswers, responseTime \in ResponseTimes,
          coin \in BOOLEAN :
           SubmitAnswer(userId, sessionId, questionId, userAnswer,
                        responseTime, coin)
    \/ \E userId \in Learners :
           \E order \in RowOrders(DueRows(userId, clock)) :
               GetDueReviews(userId, order)
    \/ Tick

SpecQuiz == InitQuiz /\ [][NextQuiz]_vars

----------------------------------------------------------------------------
(***************************************************************************)
(* Properties of the quiz and review routes.                               *)
(***************************************************************************)
CardsOf(userId, questionId) ==
    {c \in reviewSchedule : c.userId = userId /\ c.questionId = questionId}

\* The learner's responses to a question, through the sessions they own.
ResponsesOf(userId, questionId) ==
    {r \in questionResponses :
        /\ r.questionId = questionId
        /\ \E x \in quizSessions : x.id = r.sessionId /\ x.userId = userId}

\* The number of correct responses since the learner's last incorrect one.
PassingRun(userId, questionId) ==
    LET rs == ResponsesOf(userId, questionId)
    IN  Cardinality({r \in rs :
            /\ r.isCorrect
            /\ \A w \in rs : ~w.isCorrect => w.id < r.id})

\* C15: after any sequence of answer submissions the review schedule holds
\* at most one row per learner and question.
C15_OneCardPerLearnerAndQuestion ==
    \A c, d \in reviewSchedule :
        (c.userId = d.userId /\ c.questionId = d.questionId) => c = d

\* C16: a response applies the SM-2 transition to the learner's stored card
\* for the question, so after k consecutive passing responses the learner's
\* card for the question has repetitions = k.
C16_ResponseUpdatesStoredCard ==
    \A userId \in Learners, q \in questions :
        ResponsesOf(userId, q.id) # {} =>
            \E c \in CardsOf(userId, q.id) :
                c.repetitions = PassingRun(userId, q.id)

\* C17: getDueReviews(userId) returns exactly the cards of that owner whose
\* nextReview is not after now, each once and joined to its question and
\* that question's video.
C17_DueReviewsExactlyOwnersDueCards ==
    quiz.pc = "due" =>
        /\ \A i \in 1..Len(quiz.result) :
              LET row == quiz.result[i]
              IN  /\ row.card \in reviewSchedule
                  /\ row.card.userId = quiz.user
                  /\ Leq(row.card.nextReview, Num(quiz.at))
                  /\ row.question \in questions
                  /\ row.question.id = row.card.questionId
                  /\ row.video \in videos
                  /\ row.video.id = row.question.videoId
        /\ \A c \in reviewSchedule :
              (c.userId = quiz.user /\ Leq(c.nextReview, Num(quiz.at))) =>
                  Cardinality({i \in 1..Len(quiz.result) :
                                  quiz.result[i].card = c}) = 1

\* C17 witness: the list returned to one learner holds their due card while
\* the table also holds a due card of the other learner.
C17_Witness ==
    /\ quiz.pc = "due"
    /\ Len(quiz.result) = 1
    /\ \E c \in reviewSchedule :
           c.userId # quiz.user /\ Leq(c.nextReview, Num(quiz.at))

\* C18: the list getDueReviews returns is in ascending order of nextReview.
C18_DueReviewsAscending ==
    quiz.pc = "due" =>
        \A i \in 1..(Len(quiz.result) - 1) :
            Leq(quiz.result[i].card.nextReview,
                quiz.result[i + 1].card.nextReview)

\* C22: for every row of the review schedule, the stored nextReview is the
\* day of the review that wrote the row plus the stored interval.
C22_NextReviewIsReviewDayPlusInterval ==
    \A c \in reviewSchedule :
        /\ ~c.interval.nan
        /\ c.nextReview = Num(c.createdAt + c.interval.val)

\* C22 witness: a row written for a passing answer given after the first day.
C22_Witness ==
    \E c \in reviewSchedule : c.createdAt >= 1 /\ c.repetitions = 1

----------------------------------------------------------------------------
(***************************************************************************)
(* One run of AnthropicService.generateQuestions, call by call: the retry  *)
(* loop around client.messages.create, then the parsing of the response.   *)
(***************************************************************************)
ApiStatuses == {200, 400, 429, 500, 503, 529}

ResponseBodies == {api.body : api \in GenWorlds}

\* The run so far: retries is the loop's counter, statuses the answers of
\* the calls made, delays the waits between them in milliseconds.
GenRun(pc, retries, statuses, delays, result) ==
    [pc |-> pc, retries |-> retries, statuses |-> statuses,
     delays |-> delays, result |-> result]

\* await this.client.messages.create(...) answers with the given status.
GenCall(status) ==
    LET retries == gen.retries + 1
        statuses == Append(gen.statuses, status)
    IN  /\ gen.pc = "call"
        /\ gen' = IF status = 200
                  THEN [gen EXCEPT !.pc = "parse", !.statuses = statuses]
                  ELSE IF ~isRetryable(status) \/ retries > maxRetries
                  THEN [gen EXCEPT !.pc = "done", !.retries = retries,
                                   !.statuses = statuses,
                                   !.result = GenerationThrows]
                  ELSE [gen EXCEPT !.pc = "backoff", !.retries = retries,
                                   !.statuses = statuses,
                                   !.delays = Append(@, 2^(retries - 1) * 1000)]
        /\ UNCHANGED <<gate, videos, questions, nextId, req, sched, quizVars>>

\* The backoff timer fires: while (retries <= maxRetries) goes round again.
GenBackoffOver ==
    /\ gen.pc = "backoff"
    /\ gen' = [gen EXCEPT !.pc = "call"]
    /\ UNCHANGED <<gate, videos, questions, nextId, req, sched, quizVars>>

\* The response text is parsed and its items validated.
GenParse(body) ==
    /\ gen.pc = "parse"
    /\ gen' = [gen EXCEPT !.pc = "done",
                 !.result = IF body.kind # "questions" THEN GenerationThrows
                            ELSE [kind |-> "list",
                                  qs |-> ValidatedQuestions(body.items)]]
    /\ UNCHANGED <<gate, videos, questions, nextId, req, sched, quizVars>>

InitGen ==
    /\ gate = GateIdle
    /\ videos = {}
    /\ questions = {}
    /\ nextId = 1
    /\ req = <<>>
    /\ sched = [pc |-> "idle"]
    /\ QuizAtRest
    /\ gen = GenRun("call", 0, <<>>, <<>>, NoGeneration)

NextGen ==
    \/ \E status \in ApiStatuses : GenCall(status)
    \/ GenBackoffOver
    \/ \E body \in ResponseBodies : GenParse(body)

SpecGen == InitGen /\ [][NextGen]_vars

\* C20: generateQuestions retries only after an error of a retryable class,
\* makes at most 3 calls in total, waits exponentially growing delays
\* between them, and ends with a list or a throw.
C20_RetryPolicy ==
    /\ Len(gen.statuses) <= 3
    /\ gen.pc = "backoff" => isRetryable(gen.statuses[Len(gen.statuses)])
    /\ \A i \in 1..Len(gen.delays) : gen.delays[i] = 2^(i - 1) * 1000
    /\ gen.pc = "done" => gen.result.kind \in {"list", "throw"}

----------------------------------------------------------------------------
(***************************************************************************)
(* One ingestion request with the gate run step by step: where the routes  *)
(* await validateVideoForProcessing, the gate's own awaits (getVideoInfo,  *)
(* each transcript strategy) are taken one at a time.                      *)
(***************************************************************************)
TheRequest == CHOOSE r \in Requests : \A o \in Requests : r <= o

\* What getVideoInfo and a caption source may answer for the candidate.
CandidateInfos == {w.info : w \in IngestWorlds}
CandidateCaptions == {w.exts[1] : w \in IngestWorlds}

\* The store when the request arrives: empty, or holding a video (with its
\* question) that the user ingested with an earlier request.
EarlierVideo ==
    [id |-> 1, userId |-> "u1", youtubeId |-> "y1", transcriptSrc |-> "python",
     by |-> <<0, 0>>, genReturned |-> TRUE, nGenerated |-> 1]

EarlierQuestion ==
    [id |-> 2, videoId |-> 1, by |-> <<0, 0>>, nOptions |-> 4,
     correctAnswer |-> 0, difficulty |-> "easy"]

InitCandidate ==
    /\ gate = GateIdle
    /\ \/ videos = {} /\ questions = {} /\ nextId = 1
       \/ videos = {EarlierVideo} /\ questions = {EarlierQuestion} /\ nextId = 3
    /\ req = [r \in Requests |-> IdleRequest]
    /\ sched = [pc |-> "idle"]
    /\ QuizAtRest
    /\ GenAtRest

\* What the API may answer to the generator's calls for the candidate: also
\* a list with an item that lacks its explanation.
CandidateGenWorlds ==
    GenWorlds \cup
    {[calls |-> AllOk,
      body |-> Body(<<GoodItem, RawItem(FALSE, 4, 1, "easy"), GoodItem>>)]}

\* validateVideoForProcessing is called: its locals are fresh.
ValidateCalled ==
    /\ req[TheRequest].pc = "validate"
    /\ gate.pc = "returned"
    /\ gate' = GateIdle
    /\ UNCHANGED <<videos, questions, nextId, req, sched, quizVars, gen>>

CandidateInfoFails == req[TheRequest].pc = "validate" /\ GateInfoFails

CandidateInfo(info) == req[TheRequest].pc = "validate" /\ GateInfo(info)

\* validateVideoForProcessing returns its result to the route.
ValidateReturns ==
    /\ req[TheRequest].pc = "validate"
    /\ gate.pc = "done"
    /\ gate' = [gate EXCEPT !.pc = "returned"]
    /\ req' = [req EXCEPT ![TheRequest] =
                 AfterValidation(req[TheRequest], gate.result)]
    /\ UNCHANGED <<videos, questions, nextId, sched, quizVars, gen>>

NextCandidate ==
    \/ \E route \in Routes, user \in Users, len \in 0..MaxBatch :
           Start(TheRequest, route, user, len)
    \/ \E user \in Users : StartDriveFails(TheRequest, user)
    \/ \E y \in YoutubeIds \cup {"none", "null"} : LoopHead(TheRequest, y)
    \/ CheckExisting(TheRequest)
    \/ \E ok \in BOOLEAN : GetInfo(TheRequest, ok)
    \/ ValidateCalled
    \/ CandidateInfoFails
    \/ \E info \in CandidateInfos : CandidateInfo(info)
    \/ StrategyInvoke
    \/ \E ext \in CandidateCaptions : StrategyRespond(ext)
    \/ StrategyHang
    \/ StrategyTimeout
    \/ ValidateReturns
    \/ \E api \in CandidateGenWorlds : Generate(TheRequest, api)
    \/ \E ok \in BOOLEAN : CreateVideo(TheRequest, ok)
    \/ \E ok \in BOOLEAN : CreateQuestions(TheRequest, ok)

SpecCandidate == InitCandidate /\ [][NextCandidate]_vars

\* C23: once a gate check fails nothing later runs for the candidate: a
\* duration rejection is returned before any transcript strategy has been
\* invoked, and for a rejected candidate the generator is not called and no
\* video or question row is written.
C23_RejectionStopsTheCandidate ==
    /\ (gate.pc \in {"done", "returned"}
          /\ gate.result = Rejected("duration")) =>
           \A s \in Strategies : gate.invoked[s] = 0
    /\ (gate.pc = "returned" /\ ~gate.result.isValid) =>
           /\ req[TheRequest].pc
                 \notin {"generate", "createVideo", "createQuestions"}
           /\ \A v \in videos : v.by # <<TheRequest, req[TheRequest].k>>
           /\ \A q \in questions : q.by # <<TheRequest, req[TheRequest].k>>

\* C23 witness: the second candidate of a batch was rejected for its
\* duration after the first had been written to the store.
C23_Witness ==
    /\ gate.pc = "returned"
    /\ gate.result = Rejected("duration")
    /\ req[TheRequest].k = 2
    /\ req[TheRequest].skipped = 1
    /\ \E v \in videos : v.by = <<TheRequest, 1>>

\* The videos of the candidate's user that carry the candidate's YouTube id.
KnownVideos(rq) ==
    {v \in videos : v.userId = rq.user /\ v.youtubeId = rq.yid}

\* C24: with candidates processed one after another, a candidate whose
\* YouTube id is already in the user's library gets no further than the
\* lookup: the gate and the generator only run, and rows are only written,
\* for a candidate the library does not hold; so the store never holds two
\* video rows with the same user and YouTube id.
C24_SequentialSkipsKnownVideos ==
    LET rq == req[TheRequest]
    IN  /\ rq.pc \in {"getInfo", "validate", "generate", "createVideo"} =>
               KnownVideos(rq) = {}
        /\ rq.pc = "createQuestions" =>
               \A v \in KnownVideos(rq) : v.by = <<TheRequest, rq.k>>
        /\ gate.pc \notin {"idle", "returned"} => rq.pc = "validate"
        /\ \A v, w \in videos :
               (v.userId = w.userId /\ v.youtubeId = w.youtubeId) => v = w

\* C24 witness: the analyze route found the video in the library and answered
\* with it: the gate never ran and the store is as it was.
C24_Witness ==
    LET rq == req[TheRequest]
    IN  /\ rq.route = "analyze"
        /\ rq.pc = "done"
        /\ rq.response = "200"
        /\ videos = {EarlierVideo}
        /\ questions = {EarlierQuestion}
        /\ gate = GateIdle

\* C24, within one batch: the second candidate repeats the first one's id and
\* is at the lookup with the first one's video stored.
C24_WitnessSameBatch ==
    LET rq == req[TheRequest]
    IN  /\ rq.route = "history"
        /\ rq.pc = "check"
        /\ rq.k = 2
        /\ \E v \in KnownVideos(rq) : v.by = <<TheRequest, 1>>

\* A question as the program may keep it: 4 options, a correctAnswer index
\* in 0..3 and one of the three difficulties.
WellFormedQuestion(q) ==
    /\ q.nOptions = 4
    /\ q.correctAnswer \in 0..3
    /\ q.difficulty \in {"easy", "medium", "hard"}

\* C29: every question generateQuestions returns, and every question row an
\* ingestion route persists, has exactly 4 options, a correctAnswer in 0..3
\* and a difficulty among easy, medium, hard; the list returned holds one
\* question for each generated item that has all its fields and 4 options,
\* and none for any other item.
C29_OnlyWellFormedQuestions ==
    /\ \A q \in questions : WellFormedQuestion(q)
    /\ \A i \in 1..Len(req[TheRequest].gen.qs) :
           WellFormedQuestion(req[TheRequest].gen.qs[i])
    /\ \A api \in CandidateGenWorlds :
           LET items == api.body.items
           IN  generateQuestions(api).kind = "list" =>
                   Len(generateQuestions(api).qs) =
                       Cardinality({i \in 1..Len(items) :
                           items[i].hasFields /\ items[i].nOptions = 4})

\* C29 witness: of five generated items one had 3 options and one a
\* correctAnswer of 7 and an unknown difficulty: four rows were persisted
\* for the candidate, one of them with correctAnswer 3 and difficulty medium.
C29_Witness ==
    LET rows == {q \in questions : q.by = <<TheRequest, 1>>}
    IN  /\ Cardinality(rows) = 4
        /\ \E q \in rows : q.correctAnswer = 3 /\ q.difficulty = "medium"

\* C29, an item without one of its fields: of three generated items two
\* were persisted.
C29_WitnessMissingField ==
    Cardinality({q \in questions : q.by = <<TheRequest, 1>>}) = 2

----------------------------------------------------------------------------
(***************************************************************************)
(* Steps 4 to 7 of the gate (clean, length check, educational check,      *)
(* shaping) applied to the transcripts the chain can return.               *)
(***************************************************************************)
\* Where a transcript may have its sentence-ending characters.
StopPositions == {999, 4800, 4801, 5999, 6000}

\* The transcripts getRawTranscript can return: at least 1000 characters.
ShapeTranscripts ==
    {[Text(l, n, t, "python") EXCEPT !.stops = {p \in st : p < l - n}] :
        l \in {1000, 1100, 6000, 6001, 7000}, n \in {0, 100},
        t \in SUBSET Terms, st \in SUBSET StopPositions}

\* The videos that pass the duration check.
ShapeInfos == {info \in VideoInfos : ~DurationTooShort(info)}

InitShape ==
    /\ \E info \in ShapeInfos, rawTranscript \in ShapeTranscripts :
           gate = [GateIdle EXCEPT !.pc = "transcript", !.infoOk = TRUE,
                                   !.info = info, !.raw = rawTranscript]
    /\ videos = {}
    /\ questions = {}
    /\ nextId = 1
    /\ req = <<>>
    /\ sched = [pc |-> "idle"]
    /\ QuizAtRest
    /\ GenAtRest

\* Steps 4 to 7 of validateVideoForProcessing.
GateShape ==
    /\ gate.pc = "transcript"
    /\ gate' = [gate EXCEPT !.pc = "done",
                            !.result = GateAfterTranscript(gate.info, gate.raw)]
    /\ UNCHANGED <<videos, questions, nextId, req, sched, quizVars, gen>>

NextShape == GateShape

SpecShape == InitShape /\ [][NextShape]_vars

\* C26: whenever the cleaned transcript is longer than 6000 characters, the
\* transcript handed to the generator is a prefix of it that ends with a
\* sentence-ending character: nothing is appended, and its last character
\* is a '.', '!' or '?' of the cleaned transcript.
C26_CutAtSentenceBoundary ==
    (gate.pc = "done" /\ gate.result.isValid
       /\ gate.result.cleanTranscript.len > maxTranscriptLength) =>
        LET shaped == gate.result.claudeOptimizedContent.transcript
        IN  /\ ~shaped.ellipsis
            /\ shaped.prefix - 1 \in gate.result.cleanTranscript.stops

\* C26, where it holds: the cleaned transcript has a sentence end within
\* the last fifth of the window.
C26_CutAtSentenceBoundaryWhenOneIsNear ==
    (gate.pc = "done" /\ gate.result.isValid
       /\ gate.result.cleanTranscript.len > maxTranscriptLength
       /\ \E p \in gate.result.cleanTranscript.stops :
              p > SentenceCutFloor /\ p < maxTranscriptLength) =>
        LET shaped == gate.result.claudeOptimizedContent.transcript
        IN  /\ ~shaped.ellipsis
            /\ shaped.prefix - 1 \in gate.result.cleanTranscript.stops

\* C30: the size check after shaping never fires: a candidate whose cleaned
\* transcript has at least 1000 characters is never rejected for a failed
\* preparation, and an accepted payload has at least 800 characters.
C30_PrepareNeverFails ==
    /\ gate.result # Rejected("prepareFailed")
    /\ (gate.pc = "done"
          /\ cleanTranscript(gate.raw).len >= MinCleanTranscriptLength) =>
           /\ prepareOptimizedContentForClaude(gate.info,
                                               cleanTranscript(gate.raw)) # NoText
           /\ gate.result.isValid =>
                  gate.result.claudeOptimizedContent.len >= MinClaudeContentLength

\* The shortest payload: a cleaned transcript of exactly 1000 characters and
\* a video without description.
C30_Witness ==
    /\ gate.pc = "done"
    /\ gate.result.isValid
    /\ gate.result.cleanTranscript.len = MinCleanTranscriptLength
    /\ gate.info.descLen = 0
    /\ gate.result.claudeOptimizedContent.len
         = TemplateFixedLength + IsoTimestampLength + MinCleanTranscriptLength
             + NoContextLength
=============================================================================
